---- MODULE Spec2Model ----
(***************************************************************************)
(* Model of nerve-search-adapter: the connection loop (client.rs, run),    *)
(* the search handler (handler.rs, handle_search) and the cancellation     *)
(* registry (state.rs, RequestState).                                      *)
(*                                                                         *)
(* run is one sequential control flow; pc is its position.  The frame      *)
(* reader, the search backend, the serializer, the encoder and the stream  *)
(* are external: each of their calls returns one of the outcomes its       *)
(* result type allows, chosen by the environment.                          *)
(***************************************************************************)
EXTENDS Naturals, Sequences, FiniteSets

\* ---------------------------------------------------------------- bounds
MaxId     == 2      \* request ids are 1..MaxId
MaxFrames == 2      \* frames the core sends in one session
MaxBatch  == 2      \* frames one read_from call returns at most
MaxHits   == 1      \* ranked results one backend call returns at most

Ids == 1..MaxId

\* ------------------------------------------------------- protocol values
\* header.msg_type values: the two consumed types, one other known type and
\* one value MessageType::try_from rejects.
MsgTypes == {"SearchQuery", "Cancel", "SearchResult", "Unrecognised"}

\* payload bytes: "rust" and a byte sequence that is not UTF-8
Rust     == <<114, 117, 115, 116>>
NotUtf8  == <<255>>
Payloads == {Rust, NotUtf8}

Frames == [msg_type : MsgTypes, request_id : Ids, payload : Payloads]

FINAL == "FINAL"

\* a conversion that takes an unrecognised value for Cancel
MessageType_try_from_lenient(t) ==
    IF t = "Unrecognised" THEN [ok |-> TRUE, v |-> "Cancel"]
                          ELSE [ok |-> TRUE, v |-> t]

\* MessageType::try_from(frame.header.msg_type)
MessageType_try_from(t) ==
    IF t = "Unrecognised" THEN [ok |-> FALSE, v |-> "none"]
                          ELSE [ok |-> TRUE,  v |-> t]

\* std::str::from_utf8(&frame.payload): a byte above 0x7F that starts no
\* well-formed sequence is rejected; 7-bit bytes are accepted.
from_utf8(p) ==
    IF \A i \in DOMAIN p : p[i] < 128 THEN [ok |-> TRUE, v |-> p]
                                      ELSE [ok |-> FALSE, v |-> <<>>]

\* serde_json::to_vec(&result) on the ranked list: a JSON array
RECURSIVE JsonItems(_)
JsonItems(r) ==
    IF r = <<>> THEN <<>>
    ELSE IF Len(r) = 1 THEN <<r[1]>>
    ELSE <<r[1], ",">> \o JsonItems(Tail(r))

to_vec(r) == <<"[">> \o JsonItems(r) \o <<"]">>

\* encode(msg_type, flags, request_id, &payload): the reply frame
encode(t, fl, id, p) ==
    [msg_type |-> t, flags |-> {fl}, request_id |-> id,
     payload_length |-> Len(p), payload |-> p]

\* ------------------------------------------------ state.rs: RequestState
new == {}

\* cancel that also inserts the next id
cancel_wide(S, id) == S \cup {id, (id % MaxId) + 1}

\* cancel that forgets the ids cancelled before
cancel_clears(S, id) == {id}

\* cancel that removes an id already present
cancel_toggle(S, id) == IF id \in S THEN S \ {id} ELSE S \cup {id}

cancel(S, id) == S \cup {id}

\* is_cancelled that reports every id as cancelled
is_cancelled_always(S, id) == TRUE

\* is_cancelled that reports no id as cancelled
is_cancelled_unchecked(S, id) == FALSE

is_cancelled(S, id) == id \in S

\* ------------------------------------------------------------ variables
VARIABLES
    pc,         \* position of run: "connect", "read", "for", "search",
                \* "write", "done"
    stream,     \* the socket: "closed", "open", "shutdown" (by the core)
    frames,     \* frames of the current batch not yet dispatched
    cancelled,  \* RequestState.cancelled
    reply,      \* the bytes handle_search returned, while they are written
    written,    \* replies written to the stream, in write order
    result,     \* what run returned: "running", "Ok", "Err(...)"
    nread,      \* history: number of frames read_from has returned
    cur,        \* history: the frame dispatched last, with its outcome
    fault,      \* history: the external call whose failure ended run
    checks,     \* history: is_cancelled calls of the latest handle_search
    cancelSeen  \* history: request ids of the Cancel frames dispatched

vars == <<pc, stream, frames, cancelled, reply, written, result,
          nread, cur, fault, checks, cancelSeen>>

NoReply == [msg_type |-> "none"]

NoFrame ==
    [seq |-> 0, out |-> "none",
     frame |-> [msg_type |-> "none", request_id |-> 0, payload |-> <<>>]]

\* a batch as read_from returns it, each frame tagged with its arrival number
RECURSIVE Tag(_, _)
Tag(batch, n) ==
    IF batch = <<>> THEN <<>>
    ELSE <<[seq |-> n + 1, frame |-> Head(batch)]>> \o Tag(Tail(batch), n + 1)

\* the batches of k frames
Batches(k) == [1..k -> Frames]

Hits == UNION {[1..k -> {"doc"}] : k \in 0..MaxHits}

Init ==
    /\ pc = "connect"
    /\ stream = "closed"
    /\ frames = <<>>
    /\ cancelled = {}
    /\ reply = NoReply
    /\ written = <<>>
    /\ result = "running"
    /\ nread = 0
    /\ cur = NoFrame
    /\ fault = "none"
    /\ checks = 0
    /\ cancelSeen = {}

\* ------------------------------------------------------- client.rs: run
\* UnixStream::connect(socket_path)? succeeded; reader and state are created
ConnectOk ==
    /\ pc = "connect"
    /\ pc' = "read"
    /\ stream' = "open"
    /\ cancelled' = new
    /\ UNCHANGED <<frames, reply, written, result, nread, cur, fault,
                   checks, cancelSeen>>

\* a run that goes on into its loop although connect failed
ConnectErr_ignored ==
    /\ pc = "connect"
    /\ pc' = "read"
    /\ fault' = "connect"
    /\ UNCHANGED <<stream, frames, cancelled, reply, written, result, nread,
                   cur, checks, cancelSeen>>

\* UnixStream::connect(socket_path)? failed: run returns the error
ConnectErr ==
    /\ pc = "connect"
    /\ pc' = "done"
    /\ result' = "Err(connect)"
    /\ fault' = "connect"
    /\ UNCHANGED <<stream, frames, cancelled, reply, written, nread, cur,
                   checks, cancelSeen>>

\* a loop that walks the batch from its end
ForStep_reversed(fs) ==
    [frame |-> fs[Len(fs)], rest |-> SubSeq(fs, 1, Len(fs) - 1)]

\* for frame in frames: the frame the loop takes next, and what it leaves
ForStep(fs) == [frame |-> Head(fs), rest |-> Tail(fs)]

\* where run goes when the dispatch of one frame is over
AfterFrame(rest) == IF rest = <<>> THEN "read" ELSE "for"

\* reader.read_from(&mut stream) returned Ok(f): zero, one or many frames
ReadOk ==
    /\ pc = "read"
    /\ stream = "open"
    /\ \E k \in 0..MaxBatch :
        /\ nread + k <= MaxFrames
        /\ \E batch \in Batches(k) :
            /\ frames' = Tag(batch, nread)
            /\ nread' = nread + Len(batch)
            /\ pc' = AfterFrame(batch)
    /\ UNCHANGED <<stream, cancelled, reply, written, result, cur, fault,
                   checks, cancelSeen>>

\* a loop that returns the reader's error instead of breaking
ReadErr_propagated ==
    /\ pc = "read"
    /\ pc' = "done"
    /\ result' = "Err(read)"
    /\ fault' = "read"
    /\ UNCHANGED <<stream, frames, cancelled, reply, written, nread, cur,
                   checks, cancelSeen>>

\* reader.read_from(&mut stream) returned Err(e): warn!, break, Ok(())
ReadErr ==
    /\ pc = "read"
    /\ pc' = "done"
    /\ result' = "Ok"
    /\ fault' = "read"
    /\ UNCHANGED <<stream, frames, cancelled, reply, written, nread, cur,
                   checks, cancelSeen>>

Log(e, out) == [seq |-> e.seq, frame |-> e.frame, out |-> out]

SetOut(e, out) == [e EXCEPT !.out = out]

\* Ok(MessageType::Cancel) => state.cancel(RequestId(frame.header.request_id))
DispatchCancel ==
    /\ pc = "for"
    /\ LET e == ForStep(frames).frame
           t == MessageType_try_from(e.frame.msg_type)
       IN  /\ t.ok /\ t.v = "Cancel"
           /\ cancelled' = cancel(cancelled, e.frame.request_id)
           /\ cur' = Log(e, IF e.frame.request_id \in cancelSeen
                            THEN "cancel_again" ELSE "cancel")
           /\ cancelSeen' = cancelSeen \cup {e.frame.request_id}
           /\ frames' = ForStep(frames).rest
           /\ pc' = AfterFrame(frames')
    /\ UNCHANGED <<stream, reply, written, result, nread, fault, checks>>

\* _ => { ignore everything else }
DispatchOther ==
    /\ pc = "for"
    /\ LET e == ForStep(frames).frame
           t == MessageType_try_from(e.frame.msg_type)
       IN  /\ ~(t.ok /\ t.v \in {"SearchQuery", "Cancel"})
           /\ cur' = Log(e, "ignored")
           /\ frames' = ForStep(frames).rest
           /\ pc' = AfterFrame(frames')
    /\ UNCHANGED <<stream, cancelled, reply, written, result, nread, fault,
                   checks, cancelSeen>>

\* ------------------------------------------- handler.rs: handle_search
\* Ok(MessageType::SearchQuery) => handle_search(frame, &mut state), up to
\* the backend call: the cancellation check and the decoding of the query
DispatchSearch ==
    /\ pc = "for"
    /\ LET e == ForStep(frames).frame
           t == MessageType_try_from(e.frame.msg_type)
           request_id == e.frame.request_id
           query == from_utf8(e.frame.payload)
       IN  /\ t.ok /\ t.v = "SearchQuery"
           /\ frames' = ForStep(frames).rest
           /\ checks' = 1
           /\ IF is_cancelled(cancelled, request_id)
              THEN /\ cur' = Log(e, "suppressed")
                   /\ pc' = AfterFrame(frames')
              ELSE IF ~query.ok
              THEN /\ cur' = Log(e, "bad_text")
                   /\ pc' = AfterFrame(frames')
              ELSE /\ cur' = Log(e, "searching")
                   /\ pc' = "search"
    /\ UNCHANGED <<stream, cancelled, reply, written, result, nread, fault,
                   cancelSeen>>

\* a handler that hands the backend's error to run, which returns it
SearchErr_propagated ==
    /\ pc = "search"
    /\ cur' = SetOut(cur, "backend_err")
    /\ pc' = "done"
    /\ result' = "Err(backend)"
    /\ fault' = "backend"
    /\ UNCHANGED <<stream, frames, cancelled, reply, written, nread, checks,
                   cancelSeen>>

\* engine.search(...) returned Err: .ok()? returns None
SearchErr ==
    /\ pc = "search"
    /\ cur' = SetOut(cur, "backend_err")
    /\ pc' = AfterFrame(frames)
    /\ UNCHANGED <<stream, frames, cancelled, reply, written, result, nread,
                   fault, checks, cancelSeen>>

\* engine.search(...) returned Ok, serde_json::to_vec failed: returns None
SerializeErr ==
    /\ pc = "search"
    /\ cur' = SetOut(cur, "ser_err")
    /\ pc' = AfterFrame(frames)
    /\ UNCHANGED <<stream, frames, cancelled, reply, written, result, nread,
                   fault, checks, cancelSeen>>

\* a handler that returns the bytes encoded so far when encode fails
EncodeErr_partial ==
    /\ pc = "search"
    /\ reply' = [msg_type |-> "SearchResult", flags |-> {FINAL},
                 request_id |-> cur.frame.request_id,
                 payload_length |-> 2, payload |-> <<>>]
    /\ cur' = SetOut(cur, "enc_err")
    /\ pc' = "write"
    /\ UNCHANGED <<stream, frames, cancelled, written, result, nread, fault,
                   checks, cancelSeen>>

\* the result was serialized, encode(...) failed: returns None
EncodeErr ==
    /\ pc = "search"
    /\ cur' = SetOut(cur, "enc_err")
    /\ pc' = AfterFrame(frames)
    /\ UNCHANGED <<stream, frames, cancelled, reply, written, result, nread,
                   fault, checks, cancelSeen>>

\* a reply encoded with another request id than the query's
BuildReply_wrong_id(request_id, res) ==
    encode("SearchResult", FINAL, (request_id % MaxId) + 1, to_vec(res))

\* a reply encoded without the FINAL flag
BuildReply_not_final(request_id, res) ==
    encode("SearchResult", "NONE", request_id, to_vec(res))

\* the reply handle_search builds from the backend's result
BuildReply(request_id, res) ==
    encode("SearchResult", FINAL, request_id, to_vec(res))

\* a handler that leaves the reply to be written later and returns to the loop
SearchReply_deferred ==
    /\ pc = "search"
    /\ \E res \in Hits :
        reply' = BuildReply(cur.frame.request_id, res)
    /\ cur' = SetOut(cur, "encoded")
    /\ pc' = AfterFrame(frames)
    /\ UNCHANGED <<stream, frames, cancelled, written, result, nread, fault,
                   checks, cancelSeen>>

\* engine.search(...) returned Ok(result): serialize, encode, Some(reply)
SearchReply ==
    /\ pc = "search"
    /\ \E res \in Hits :
        reply' = BuildReply(cur.frame.request_id, res)
    /\ cur' = SetOut(cur, "encoded")
    /\ pc' = "write"
    /\ UNCHANGED <<stream, frames, cancelled, written, result, nread, fault,
                   checks, cancelSeen>>

\* stream.write_all(&reply)? succeeded
WriteOk ==
    /\ pc = "write"
    /\ written' = Append(written,
                         [src |-> cur.seq, bytes |-> reply])
    /\ cur' = SetOut(cur, "written")
    /\ reply' = NoReply
    /\ pc' = AfterFrame(frames)
    /\ UNCHANGED <<stream, frames, cancelled, result, nread, fault, checks,
                   cancelSeen>>

\* a loop that drops the write error and goes on with the next frame
WriteErr_ignored ==
    /\ pc = "write"
    /\ cur' = SetOut(cur, "write_err")
    /\ reply' = NoReply
    /\ pc' = AfterFrame(frames)
    /\ fault' = "write"
    /\ UNCHANGED <<stream, frames, cancelled, written, result, nread,
                   checks, cancelSeen>>

\* stream.write_all(&reply)? failed: run returns the error
WriteErr ==
    /\ pc = "write"
    /\ cur' = SetOut(cur, "write_err")
    /\ reply' = NoReply
    /\ pc' = "done"
    /\ result' = "Err(write)"
    /\ fault' = "write"
    /\ UNCHANGED <<stream, frames, cancelled, written, nread, checks,
                   cancelSeen>>

\* ------------------------------------------------------------ the core
\* the core shuts the connection down while run is in its loop
CoreShutdown ==
    /\ stream = "open"
    /\ pc # "done"
    /\ stream' = "shutdown"
    /\ UNCHANGED <<pc, frames, cancelled, reply, written, result, nread,
                   cur, fault, checks, cancelSeen>>

Next ==
    \/ ConnectOk \/ ConnectErr
    \/ ReadOk \/ ReadErr
    \/ DispatchSearch \/ DispatchCancel \/ DispatchOther
    \/ SearchErr \/ SerializeErr \/ EncodeErr \/ SearchReply
    \/ WriteOk \/ WriteErr
    \/ CoreShutdown

Spec == Init /\ [][Next]_vars

\* run is a running thread: it takes its next step, and every call it blocks
\* on returns.  A read on an open, idle stream may block for ever; a read on
\* a stream the core has shut down returns (adapter_exits_when_core_shuts_down).
Step ==
    \/ ConnectOk \/ ConnectErr
    \/ DispatchSearch \/ DispatchCancel \/ DispatchOther
    \/ SearchErr \/ SerializeErr \/ EncodeErr \/ SearchReply
    \/ WriteOk \/ WriteErr

ReadAfterShutdown == stream = "shutdown" /\ ReadErr

FairSpec ==
    /\ Init /\ [][Next]_vars
    /\ WF_vars(Step) /\ WF_vars(ReadAfterShutdown)


\* ================================================================ claims
Last(sq) == sq[Len(sq)]

\* the frame the loop is about to dispatch
Upcoming == ForStep(frames).frame.frame

\* a frame was dispatched in this step
Dispatched == cur'.seq # cur.seq

RepliesFor(n) == {i \in DOMAIN written : written[i].src = n}

\* C1: no reply for r is emitted once Cancel(r) has been processed: whenever
\* a reply frame is written, no Cancel frame for its request id has been
\* dispatched, and a reply about to be written is for an id not cancelled.
C1_NoReplyAfterCancel ==
    [][/\ pc = "write" => reply.request_id \notin cancelSeen
       /\ written' # written =>
            /\ Len(written') = Len(written) + 1
            /\ Last(written').bytes.request_id \notin cancelSeen]_vars

\* C1 witness: Cancel(r) was processed, the SearchQuery(r) after it got no
\* reply and the loop went back to reading
C1_Witness ==
    /\ cur.frame.msg_type = "SearchQuery"
    /\ cur.frame.request_id \in cancelSeen
    /\ RepliesFor(cur.seq) = {}
    /\ written = <<>>
    /\ pc = "read"

\* C2: a SearchQuery for r dispatched after Cancel(r) was processed returns
\* no reply at once, and no backend call runs for a cancelled id.
C2_ShortCircuit ==
    [][/\ pc = "search" => cur.frame.request_id \notin cancelSeen
       /\ (/\ pc = "for"
           /\ Upcoming.msg_type = "SearchQuery"
           /\ Upcoming.request_id \in cancelSeen
           /\ Dispatched)
          => /\ cur'.out = "suppressed"
             /\ pc' \in {"read", "for"}
             /\ written' = written
             /\ reply' = NoReply]_vars

\* C2 witness: Cancel(r), then a SearchQuery(r) with valid text suppressed at
\* the first check
C2_Witness ==
    /\ cur.out = "suppressed"
    /\ from_utf8(cur.frame.payload).ok
    /\ checks = 1
    /\ cur.seq = 2

\* C3: when a reply is about to be written, cancellation was checked a second
\* time after the backend call, and a Cancel for the same id that reached the
\* adapter during the backend call suppressed the reply.
C3_SecondCheck ==
    pc = "write" =>
        /\ checks >= 2
        /\ \A i \in DOMAIN frames :
              ~(/\ frames[i].frame.msg_type = "Cancel"
                /\ frames[i].frame.request_id = reply.request_id)

\* the reply written for the query dispatched last: exactly one, a
\* SearchResult with FINAL set, the query's request id, a non-empty payload
OneReply ==
    /\ Len(written) > 0
    /\ RepliesFor(cur.seq) = {Len(written)}
    /\ Last(written).bytes.msg_type = "SearchResult"
    /\ FINAL \in Last(written).bytes.flags
    /\ Last(written).bytes.request_id = cur.frame.request_id
    /\ Len(Last(written).bytes.payload) > 0
    /\ Last(written).bytes.payload_length = Len(Last(written).bytes.payload)

\* the frame dispatched last is a SearchQuery for an id never cancelled, with
\* valid text, whose backend call succeeded and whose handling is over
AnsweredByBackend ==
    /\ cur.frame.msg_type = "SearchQuery"
    /\ cur.frame.request_id \notin cancelSeen
    /\ from_utf8(cur.frame.payload).ok
    /\ cur.out \notin {"searching", "encoded", "backend_err"}

\* C4 as stated: a SearchQuery for a never-cancelled id with valid text and a
\* successful backend call yields exactly one well-formed reply frame.
C4_OneReplyPerQuery == AnsweredByBackend => OneReply

\* C4 amended: ... provided also that the result was serialized and encoded
\* and the write of the reply succeeded.
C4_OneReplyWhenEncodedAndWritten ==
    (AnsweredByBackend /\ cur.out \notin {"ser_err", "enc_err", "write_err"})
        => OneReply

\* C4 witness: a never-cancelled query was answered and the loop went on
C4_Witness ==
    /\ AnsweredByBackend
    /\ cur.out = "written"
    /\ Len(written) = 1
    /\ pc \in {"read", "for"}

\* C5: replies are written in the order in which their SearchQuery frames
\* arrived.
C5_FIFO ==
    \A i, j \in DOMAIN written :
        i < j => written[i].src < written[j].src

\* C5 witness: two queries have been answered, one after the other
C5_Witness ==
    /\ Len(written) >= 2
    /\ written[1].src < written[2].src
    /\ pc = "read"

\* C6: an id in the registry stays in the registry.
C6_StaysCancelled == [][cancelled \subseteq cancelled']_vars

\* C6 witness: an id was cancelled, a later frame was processed and the id is
\* still cancelled
C6_Witness ==
    /\ cancelSeen # {}
    /\ cancelSeen \subseteq cancelled
    /\ cur.seq >= 2
    /\ pc = "read"

\* C7: Cancel(r) processed when r is already cancelled changes neither the
\* registry nor anything written; inserting r twice equals inserting it once.
C7_CancelIdempotent ==
    [][/\ \A r \in Ids :
            cancel(cancel(cancelled, r), r) = cancel(cancelled, r)
       /\ (/\ pc = "for"
           /\ Upcoming.msg_type = "Cancel"
           /\ Upcoming.request_id \in cancelSeen
           /\ Dispatched)
          => /\ cancelled' = cancelled
             /\ written' = written
             /\ reply' = reply]_vars

\* C7 witness: Cancel(r) was processed a second time
C7_Witness ==
    /\ cur.out = "cancel_again"
    /\ cur.frame.request_id \in cancelled

\* C8: when the reader reports an error, run returns that error.
C8_ReadErrorReturned ==
    fault = "read" => (pc = "done" /\ result = "Err(read)")

\* C9: a failed write ends run with the write error, and the frame whose
\* reply failed is the last frame dispatched.
C9_WriteFailureFatal ==
    fault = "write" =>
        /\ pc = "done"
        /\ result = "Err(write)"
        /\ cur.out = "write_err"
        /\ RepliesFor(cur.seq) = {}

\* C9 witness: a write failed while a frame of the batch was still waiting
C9_Witness ==
    /\ fault = "write"
    /\ frames # <<>>
    /\ pc = "done"

\* C10 as stated: once the core has shut the connection down, a run that
\* has returned has returned Ok.
C10_OkAfterShutdown ==
    (stream = "shutdown" /\ pc = "done") => result = "Ok"

\* C10 amended: after the core shuts the connection down run eventually
\* returns: Ok when the loop ended at the reader's report, the write error
\* when a reply write failed.
C10_ShutdownEndsRun ==
    (stream = "shutdown") ~>
        (/\ pc = "done"
         /\ \/ (fault = "read" /\ result = "Ok")
            \/ (fault = "write" /\ result = "Err(write)"))

\* C10 witness: the core shut down after frames were processed and run
\* returned Ok
C10_Witness ==
    /\ stream = "shutdown"
    /\ pc = "done"
    /\ result = "Ok"
    /\ cur.seq > 0

\* C11: when connect fails run returns the connect error and no session
\* exists: no frame was read or dispatched, the registry is empty, nothing
\* was written.
C11_ConnectFailure ==
    fault = "connect" =>
        /\ pc = "done"
        /\ result = "Err(connect)"
        /\ stream = "closed"
        /\ nread = 0 /\ frames = <<>> /\ cur = NoFrame
        /\ cancelled = {} /\ cancelSeen = {}
        /\ written = <<>> /\ reply = NoReply

\* C11 witness: connect failed and run has returned
C11_Witness == fault = "connect" /\ result # "running"

\* C12: a frame that is neither SearchQuery nor Cancel is dropped: nothing is
\* written, the registry is unchanged, no error is reported and the loop goes
\* on with the next frame.
C12_OtherFrameDropped ==
    [][(/\ pc = "for"
        /\ Upcoming.msg_type \notin {"SearchQuery", "Cancel"}
        /\ Dispatched)
       => /\ cur'.out = "ignored"
          /\ written' = written /\ reply' = reply
          /\ cancelled' = cancelled
          /\ result' = "running" /\ fault' = "none"
          /\ frames' = Tail(frames)
          /\ pc' = AfterFrame(frames')]_vars

\* C12 witness: a frame of unrecognised type was dropped and the next frame
\* of the batch is about to be dispatched
C12_Witness ==
    /\ cur.out = "ignored"
    /\ cur.frame.msg_type = "Unrecognised"
    /\ pc = "for"
    /\ frames # <<>>
    /\ result = "running"

\* C13: a Cancel frame adds the request id of its header to the registry,
\* whatever its payload, changes no other entry and writes nothing.
C13_CancelFrameEffect ==
    [][(/\ pc = "for"
        /\ Upcoming.msg_type = "Cancel"
        /\ Dispatched)
       => /\ cancelled' = cancelled \cup {Upcoming.request_id}
          /\ written' = written /\ reply' = reply
          /\ pc' = AfterFrame(frames')]_vars

\* C13 witness: a Cancel frame whose payload is not text cancelled a second
\* id and the id cancelled before is still there
C13_Witness ==
    /\ cur.out = "cancel"
    /\ cur.frame.payload = NotUtf8
    /\ cur.frame.request_id \in cancelled
    /\ Cardinality(cancelled) = 2

\* the last dispatch is over without a reply and without an error: nothing
\* was written for the frame, no reply is pending, run has not failed and the
\* loop is at the next frame (or, the batch being over, at the next read)
DroppedSilently ==
    /\ RepliesFor(cur.seq) = {}
    /\ reply = NoReply
    /\ fault \in {"none", "read"}
    /\ result \in {"running", "Ok"}
    /\ fault = "none" => pc = AfterFrame(frames)

\* C14: a SearchQuery whose payload is not valid text never reaches the
\* backend, and one whose payload is not text or whose backend call failed
\* is dropped silently.
C14_BackendFailureDropped ==
    /\ (cur.frame.msg_type = "SearchQuery" /\ ~from_utf8(cur.frame.payload).ok)
          => cur.out \in {"suppressed", "bad_text"}
    /\ cur.out \in {"bad_text", "backend_err"} => DroppedSilently

\* C14 witness: the backend call of the first query of a batch failed and
\* the loop is at the second frame
C14_Witness ==
    /\ cur.out = "backend_err"
    /\ cur.seq = 1
    /\ pc = "for"
    /\ frames # <<>>

\* C15: a reply that could not be serialized or encoded is dropped silently,
\* and every frame written is a complete SearchResult frame.
C15_EncodeFailureDropped ==
    /\ cur.out \in {"ser_err", "enc_err"} => DroppedSilently
    /\ \A i \in DOMAIN written :
          /\ written[i].bytes.msg_type = "SearchResult"
          /\ written[i].bytes.payload_length = Len(written[i].bytes.payload)

\* C15 witness: encode failed for the first query of a batch and the loop is
\* at the second frame
C15_Witness ==
    /\ cur.out = "enc_err"
    /\ cur.seq = 1
    /\ pc = "for"
    /\ frames # <<>>

\* C16: a frame is dispatched only when the dispatch of the frame before it
\* is over (no backend call in progress, no reply waiting to be written), and
\* frames are dispatched in the order in which they were read.
C16_OneAtATime ==
    [][Dispatched =>
         /\ pc = "for"
         /\ cur.out \notin {"searching", "encoded"}
         /\ reply = NoReply
         /\ cur'.seq = cur.seq + 1
         /\ \A i \in DOMAIN frames' : frames'[i].seq > cur'.seq]_vars

\* C16 witness: the second query is at the backend after the reply of the
\* first was written
C16_Witness ==
    /\ cur.seq = 2
    /\ cur.out = "searching"
    /\ pc = "search"
    /\ Len(written) = 1
    /\ written[1].src = 1

\* C17: every write appends one reply, made for the SearchQuery frame
\* dispatched last, carrying that frame's request id, and no reply was
\* written for that frame before.
C17_WritesAreReplies ==
    [][written' # written =>
         /\ Len(written') = Len(written) + 1
         /\ SubSeq(written', 1, Len(written)) = written
         /\ cur.frame.msg_type = "SearchQuery"
         /\ Last(written').src = cur.seq
         /\ Last(written').bytes.request_id = cur.frame.request_id
         /\ RepliesFor(cur.seq) = {}]_vars

\* C17 witness: the first frame caused no write, the second, a query, was
\* answered with its own request id
C17_Witness ==
    /\ cur.seq = 2
    /\ cur.out = "written"
    /\ Len(written) = 1
    /\ written[1].src = 2
    /\ written[1].bytes.request_id = cur.frame.request_id

\* requests in flight: the query being handled and the queries of the batch
\* that wait for their dispatch
InFlight ==
    Cardinality({i \in DOMAIN frames : frames[i].frame.msg_type = "SearchQuery"})
    + (IF pc \in {"search", "write"} THEN 1 ELSE 0)

\* C18 as stated: the registry holds no more entries than there are requests
\* in flight.
C18_BoundedByInFlight == Cardinality(cancelled) <= InFlight

\* C18 amended: the registry holds no more entries than distinct request ids
\* were carried by the Cancel frames dispatched, hence no more than frames
\* were dispatched.
C18_BoundedByCancelFrames ==
    /\ Cardinality(cancelled) <= Cardinality(cancelSeen)
    /\ Cardinality(cancelled) <= cur.seq

\* C18 witness: two ids are cancelled while no request is in flight
C18_Witness ==
    /\ Cardinality(cancelled) = 2
    /\ InFlight = 0
    /\ pc = "read"

\* C19: the registry holds exactly the ids of the Cancel frames dispatched,
\* only the dispatch of a Cancel frame changes it, and a SearchQuery is
\* suppressed only when a Cancel frame for its id was dispatched before.
C19_RegistryIsCancelFrames ==
    [][/\ pc # "connect" => cancelled = cancelSeen
       /\ pc = "connect" => cancelSeen = {}
       /\ cancelled' # cancelled =>
            (pc = "for" /\ Upcoming.msg_type = "Cancel" /\ Dispatched)
       /\ (Dispatched /\ cur'.out = "suppressed") =>
            Upcoming.request_id \in cancelSeen]_vars

\* C19 witness: with one id cancelled, a query for the other id went on to
\* the backend
C19_Witness ==
    /\ cancelSeen # {}
    /\ cur.frame.msg_type = "SearchQuery"
    /\ cur.frame.request_id \notin cancelSeen
    /\ cur.out = "searching"

====
